---- MODULE Spec2Model ----
(***************************************************************************)
(* State-machine model of the SDL2 platformer in src/main.cpp: the player  *)
(* kinematics step (Player::update), the screen state machine and the      *)
(* event/frame loop of runGameLoop, and the startup sequence of main.      *)
(*                                                                         *)
(* velY is a C++ float.  Every value it takes is an integer multiple of    *)
(* 2^-26, so the model stores velY * 2^26 as an integer and redoes the     *)
(* IEEE-754 binary32 round-to-nearest-even of each addition (F32Round).    *)
(***************************************************************************)
EXTENDS Integers, Sequences, FiniteSets, TLC

\* ---------------------------------------------------------------- constants
SCREEN_WIDTH == 800
SCREEN_HEIGHT == 600
GROUND_LEVEL == SCREEN_HEIGHT - 50
PLATFORM_HEIGHT == 20
PLATFORM_WIDTH == 150

\* one unit of velY in the model is 2^-26
F32Unit == 2^26
\* 0.2f == 13421773 * 2^-26 (the binary32 nearest to 0.2)
GRAVITY == 13421773
JUMP_SPEED == (-6) * F32Unit

\* ------------------------------------------------------------ float helpers
\* binary32 rounding (nearest, ties to even) of an exact sum s, in units of 2^-26
F32Round(s) ==
    LET a == IF s < 0 THEN -s ELSE s
        ulp == IF a < 2^24 THEN 1
               ELSE IF a < 2^25 THEN 2
               ELSE IF a < 2^26 THEN 4
               ELSE IF a < 2^27 THEN 8
               ELSE IF a < 2^28 THEN 16
               ELSE IF a < 2^29 THEN 32
               ELSE IF a < 2^30 THEN 64
               ELSE 128
        q == a \div ulp
        r == a % ulp
        up == (2 * r > ulp) \/ (2 * r = ulp /\ q % 2 = 1)
        m == (IF up THEN q + 1 ELSE q) * ulp
    IN  IF s < 0 THEN -m ELSE m

\* velY += GRAVITY
F32Add(a, b) == F32Round(a + b)

\* static_cast<int>(velY): truncation toward zero
StaticCastInt(v) == IF v >= 0 THEN v \div F32Unit ELSE -((-v) \div F32Unit)

\* ------------------------------------------------------------------ screens
GameStates == {"MainMenu", "MapScreen", "SkinScreen", "GameScreen", "WinScreen", "LoseScreen"}

\* ---------------------------------------------------------------- platforms
Platform(x, y, w, h) == [x |-> x, y |-> y, w |-> w, h |-> h]

\* mutant of platforms: the last platform is placed half over the first one
platforms_Overlapping ==
    << Platform(0, GROUND_LEVEL - PLATFORM_HEIGHT, PLATFORM_WIDTH, PLATFORM_HEIGHT),
       Platform(200, GROUND_LEVEL - 100, PLATFORM_WIDTH, PLATFORM_HEIGHT),
       Platform(0, GROUND_LEVEL - 160, PLATFORM_WIDTH, PLATFORM_HEIGHT),
       Platform(200, GROUND_LEVEL - 240, PLATFORM_WIDTH, PLATFORM_HEIGHT),
       Platform(0, GROUND_LEVEL - 320, PLATFORM_WIDTH, PLATFORM_HEIGHT),
       Platform(200, GROUND_LEVEL - 400, PLATFORM_WIDTH, PLATFORM_HEIGHT),
       Platform(400, GROUND_LEVEL - 480, PLATFORM_WIDTH, PLATFORM_HEIGHT),
       Platform(100, GROUND_LEVEL - 30, PLATFORM_WIDTH, PLATFORM_HEIGHT) >>

platforms ==
    << Platform(0, GROUND_LEVEL - PLATFORM_HEIGHT, PLATFORM_WIDTH, PLATFORM_HEIGHT),
       Platform(200, GROUND_LEVEL - 100, PLATFORM_WIDTH, PLATFORM_HEIGHT),
       Platform(0, GROUND_LEVEL - 160, PLATFORM_WIDTH, PLATFORM_HEIGHT),
       Platform(200, GROUND_LEVEL - 240, PLATFORM_WIDTH, PLATFORM_HEIGHT),
       Platform(0, GROUND_LEVEL - 320, PLATFORM_WIDTH, PLATFORM_HEIGHT),
       Platform(200, GROUND_LEVEL - 400, PLATFORM_WIDTH, PLATFORM_HEIGHT),
       Platform(400, GROUND_LEVEL - 480, PLATFORM_WIDTH, PLATFORM_HEIGHT),
       Platform(600, GROUND_LEVEL - 160, PLATFORM_WIDTH, PLATFORM_HEIGHT) >>

\* ------------------------------------------------------------------- player
\* Player::Player: speed(3), velY(0); onAnyPlatform is never read and is left out
Player(x, y, w, h, texture, onGround) ==
    [rect |-> [x |-> x, y |-> y, w |-> w, h |-> h], texture |-> texture,
     speed |-> 3, velY |-> 0, onGround |-> onGround]

\* the keyboard state read by one frame: the subset of {"A","D","W"} held down
KeyStates == SUBSET {"A", "D", "W"}

\* mutant of MoveX: the clamp at the left edge is missing
MoveX_NoLeftClamp(p, state) ==
    LET moveX == (IF "A" \in state THEN -p.speed ELSE 0) + (IF "D" \in state THEN p.speed ELSE 0)
        x1 == p.rect.x + moveX
    IN  IF x1 + p.rect.w > SCREEN_WIDTH THEN SCREEN_WIDTH - p.rect.w ELSE x1

\* lines 130-141: horizontal move and clamp
MoveX(p, state) ==
    LET moveX == (IF "A" \in state THEN -p.speed ELSE 0) + (IF "D" \in state THEN p.speed ELSE 0)
        x1 == p.rect.x + moveX
        x2 == IF x1 < 0 THEN 0 ELSE x1
    IN  IF x2 + p.rect.w > SCREEN_WIDTH THEN SCREEN_WIDTH - p.rect.w ELSE x2

\* mutant of Collides: the top of the band is excluded (> for >=)
Collides_Strict(rect, platformRect) ==
    /\ rect.y + rect.h > platformRect.y
    /\ rect.y + rect.h <= platformRect.y + platformRect.h
    /\ rect.x + rect.w > platformRect.x
    /\ rect.x < platformRect.x + platformRect.w

\* lines 151-152: the collision test of one platform against the player rectangle
Collides(rect, platformRect) ==
    /\ rect.y + rect.h >= platformRect.y
    /\ rect.y + rect.h <= platformRect.y + platformRect.h
    /\ rect.x + rect.w > platformRect.x
    /\ rect.x < platformRect.x + platformRect.w

\* lines 148-159: index of the first platform of the list that collides, 0 if none
FirstHit(rect, plats) ==
    LET hits == {i \in 1..Len(plats) : Collides(rect, plats[i])}
    IN  IF hits = {} THEN 0 ELSE CHOOSE i \in hits : \A j \in hits : i <= j

\* lines 143-144: the player after the horizontal move and the gravity integration
Integrate(p, state) ==
    LET v == F32Add(p.velY, GRAVITY)
    IN  [p EXCEPT !.rect.x = MoveX(p, state), !.velY = v,
                  !.rect.y = p.rect.y + StaticCastInt(v)]

\* mutant of ResolvePlatforms: the player is grounded but not moved onto the platform
ResolvePlatforms_NoSnap(p, plats) ==
    LET hits == {i \in 1..Len(plats) : Collides(p.rect, plats[i])}
    IN  IF hits = {} THEN [p EXCEPT !.onGround = FALSE]
        ELSE [p EXCEPT !.onGround = TRUE, !.velY = 0]

\* lines 147-159: platform collision resolution
ResolvePlatforms(p, plats) ==
    LET hit == FirstHit(p.rect, plats)
    IN  IF hit = 0 THEN [p EXCEPT !.onGround = FALSE]
        ELSE [p EXCEPT !.rect.y = plats[hit].y - p.rect.h, !.onGround = TRUE, !.velY = 0]

\* mutant of HitsGround: a bottom exactly on the ground line does not count (> for >=)
HitsGround_Strict(p) == p.rect.y + p.rect.h > GROUND_LEVEL

\* lines 161-167: the ground test
HitsGround(p) == p.rect.y + p.rect.h >= GROUND_LEVEL

\* mutant of ResolveGround: the player is grounded but not moved onto the ground line
ResolveGround_NoSnap(p) ==
    IF p.rect.y + p.rect.h >= GROUND_LEVEL
    THEN [p EXCEPT !.onGround = TRUE, !.velY = 0]
    ELSE p

ResolveGround(p) ==
    IF HitsGround(p)
    THEN [p EXCEPT !.rect.y = GROUND_LEVEL - p.rect.h, !.onGround = TRUE, !.velY = 0]
    ELSE p

\* mutant of ReachesRightEdge: touching the edge does not count (> for >=)
ReachesRightEdge_Strict(p) == p.rect.x + p.rect.w > SCREEN_WIDTH

\* lines 169-172: the right-edge test
ReachesRightEdge(p) == p.rect.x + p.rect.w >= SCREEN_WIDTH

\* lines 161-172: the game state written by the ground test and then the edge test
StateAfter(p, gs) ==
    LET afterGround == IF HitsGround(p) THEN "LoseScreen" ELSE gs
    IN  IF ReachesRightEdge(p) THEN "WinScreen" ELSE afterGround

\* mutant of Jump: the grounded test is missing
Jump_InTheAir(p, state) ==
    IF "W" \in state
    THEN [p EXCEPT !.onGround = FALSE, !.velY = JUMP_SPEED]
    ELSE p

\* lines 174-178: the jump
Jump(p, state) ==
    IF p.onGround /\ "W" \in state
    THEN [p EXCEPT !.onGround = FALSE, !.velY = JUMP_SPEED]
    ELSE p

\* lines 130-159: the player when the ground test is reached
AfterCollision(p, state, plats) == ResolvePlatforms(Integrate(p, state), plats)

\* Player::update: the new player and the new game state
Update(p, state, gs, plats) ==
    LET p2 == AfterCollision(p, state, plats)
        p3 == ResolveGround(p2)
    IN  [player |-> Jump(p3, state), gameState |-> StateAfter(p2, gs)]

\* -------------------------------------------------------------------- assets
NULL == "nullptr"

mapImagePaths ==
    << "images/nyc.bmp", "images/sydney.bmp", "images/london.bmp",
       "images/pisa.bmp", "images/moai.bmp", "images/pjatk.bmp" >>

skinImagePaths == << "skins/dziekan.bmp", "skins/rektor.bmp" >>

\* std::vector::size()
size(v) == Len(v)

\* mutant of at: the first entry, whatever the index
at_First(v, i) == v[1]

\* v[i] of a std::vector (0-based)
at(v, i) == v[i + 1]

\* ------------------------------------------------------------------- buttons
Button(text, x, y, w, h) == [text |-> text, rect |-> [x |-> x, y |-> y, w |-> w, h |-> h]]

playButton == Button("PLAY", SCREEN_WIDTH \div 2 - 100, SCREEN_HEIGHT \div 2 - 150, 200, 50)
skinButton == Button("SKINS", SCREEN_WIDTH \div 2 - 225, SCREEN_HEIGHT \div 2 - 75, 200, 50)
mapButton == Button("MAP", SCREEN_WIDTH \div 2 + 25, SCREEN_HEIGHT \div 2 - 75, 200, 50)
exitButton == Button("EXIT", SCREEN_WIDTH \div 2 + 150, SCREEN_HEIGHT \div 2 + 200, 200, 50)
selectButton == Button("SELECT", SCREEN_WIDTH \div 2 - 100, SCREEN_HEIGHT \div 2 + 125, 200, 50)
backButton == Button("BACK", SCREEN_WIDTH \div 2 - 100, SCREEN_HEIGHT \div 2 + 200, 200, 50)
winBackButton == Button("BACK TO MENU", SCREEN_WIDTH \div 2 - 100, SCREEN_HEIGHT \div 2 + 100, 200, 50)
loseBackButton == Button("TRY AGAIN", SCREEN_WIDTH \div 2 - 100, SCREEN_HEIGHT \div 2 + 100, 200, 50)
leftArrowButton == Button("<", SCREEN_WIDTH \div 2 - 250, SCREEN_HEIGHT \div 2, 50, 50)
rightArrowButton == Button(">", SCREEN_WIDTH \div 2 + 200, SCREEN_HEIGHT \div 2, 50, 50)

\* Button::containsPoint: both edges inclusive
containsPoint(b, x, y) ==
    /\ x >= b.rect.x
    /\ x <= b.rect.x + b.rect.w
    /\ y >= b.rect.y
    /\ y <= b.rect.y + b.rect.h

ButtonNames ==
    {"playButton", "skinButton", "mapButton", "exitButton", "selectButton", "backButton",
     "winBackButton", "loseBackButton", "leftArrowButton", "rightArrowButton"}

\* ---------------------------------------------------------------- the state
VARIABLES
    pc,                          \* "main": in main before the loop; "poll": at SDL_PollEvent; "exit"
    exitCode,                    \* the value main returned, -1 while the process runs
    badAssets,                   \* the image files IMG_Load fails on
    gameState,
    isRunning,
    player,
    playerTexture,
    backgroundTextureMainMenu,
    backgroundTextureGameScreen,
    backgroundTextureMapScreen,
    mapThumbnailTexture,
    skinThumbnailTexture,
    currentMapIndex,
    currentSkinIndex,
    audioPaused,                 \* the pause state of audioDevice
    isMouseOver                  \* Button::isMouseOver of each button

vars ==
    << pc, exitCode, badAssets, gameState, isRunning, player, playerTexture,
       backgroundTextureMainMenu, backgroundTextureGameScreen, backgroundTextureMapScreen,
       mapThumbnailTexture, skinThumbnailTexture, currentMapIndex, currentSkinIndex,
       audioPaused, isMouseOver >>

\* the texture variables and selection indices
menuVars ==
    << playerTexture, backgroundTextureMainMenu, backgroundTextureGameScreen,
       backgroundTextureMapScreen, mapThumbnailTexture, skinThumbnailTexture,
       currentMapIndex, currentSkinIndex >>

\* mutant of loadTexture: a handle is returned even when the image cannot be loaded
loadTexture_NeverNull(path) == path

\* loadTexture: nullptr when the image cannot be loaded
loadTexture(path) == IF path \in badAssets THEN NULL ELSE path

\* Player(0, GROUND_LEVEL - PLATFORM_HEIGHT - 50, 50, 50, playerTexture, true)
FreshPlayer(texture) == Player(0, GROUND_LEVEL - PLATFORM_HEIGHT - 50, 50, 50, texture, TRUE)

\* runGameLoop, lines 208-258: the locals as constructed, with the files in bad failing
InitWith(bad) ==
    /\ pc = "main"
    /\ exitCode = -1
    /\ badAssets = bad
    /\ gameState = "MainMenu"
    /\ isRunning = TRUE
    /\ backgroundTextureMainMenu = (IF "images/london.bmp" \in bad THEN NULL ELSE "images/london.bmp")
    /\ backgroundTextureGameScreen = (IF "images/london.bmp" \in bad THEN NULL ELSE "images/london.bmp")
    /\ backgroundTextureMapScreen = (IF "images/london.bmp" \in bad THEN NULL ELSE "images/london.bmp")
    /\ currentMapIndex = 0
    /\ currentSkinIndex = 0
    /\ mapThumbnailTexture = (IF at(mapImagePaths, 0) \in bad THEN NULL ELSE at(mapImagePaths, 0))
    /\ skinThumbnailTexture = (IF at(skinImagePaths, 0) \in bad THEN NULL ELSE at(skinImagePaths, 0))
    /\ playerTexture = (IF at(skinImagePaths, 0) \in bad THEN NULL ELSE at(skinImagePaths, 0))
    /\ player = FreshPlayer(IF at(skinImagePaths, 0) \in bad THEN NULL ELSE at(skinImagePaths, 0))
    /\ audioPaused = TRUE
    /\ isMouseOver = [b \in ButtonNames |-> FALSE]

Init == InitWith({})

\* -------------------------------------------------------------------- main
\* what can go wrong before the loop, in the order main and runGameLoop try it
StartupSteps ==
    << "SDL_Init", "IMG_Init", "TTF_Init", "SDL_CreateWindow", "SDL_CreateRenderer",
       "SDL_LoadWAV", "SDL_OpenAudioDevice" >>

\* main lines 496-526 return 1; a failure inside runGameLoop (lines 263-278) makes
\* runGameLoop return, and main then returns 0 at line 537
StartupExitCode(step) ==
    IF step \in {"SDL_Init", "IMG_Init", "TTF_Init", "SDL_CreateWindow", "SDL_CreateRenderer"}
    THEN 1 ELSE 0

\* the audio clip SDL_LoadWAV reads at line 263
AudioAsset == "music/test.wav"

\* the startup fails at one step (a call may fail for any reason; the audio device
\* is only opened once the clip is loaded, line 263 before line 273)
StartupFails ==
    /\ pc = "main"
    /\ \E i \in 1..Len(StartupSteps) :
          /\ StartupSteps[i] = "SDL_OpenAudioDevice" => AudioAsset \notin badAssets
          /\ pc' = "exit"
          /\ exitCode' = StartupExitCode(StartupSteps[i])
    /\ UNCHANGED << badAssets, gameState, isRunning, player, menuVars, audioPaused, isMouseOver >>

\* every startup step succeeds: the loop is entered (isRunning is true)
StartupOk ==
    /\ pc = "main"
    /\ AudioAsset \notin badAssets
    /\ pc' = "poll"
    /\ UNCHANGED << exitCode, badAssets, gameState, isRunning, player, menuVars, audioPaused,
                    isMouseOver >>

\* ------------------------------------------------------------ event handlers
\* SDL_QUIT, lines 284-287
Quit ==
    /\ pc = "poll"
    /\ isRunning' = FALSE
    /\ UNCHANGED << pc, exitCode, badAssets, gameState, player, menuVars, audioPaused, isMouseOver >>

\* mutant of PreviousIndex: the first entry is not left
PreviousIndex_Clamped(i, n) == IF i = 0 THEN 0 ELSE i - 1

\* (index - 1 + paths.size()) % paths.size(), lines 317 and 339.  The sum is formed
\* in size_t; with index >= 0 and size >= 1 it does not wrap, so it is the integer sum
PreviousIndex(i, n) == (i - 1 + n) % n

\* mutant of NextIndex: the wrap is taken one entry early
NextIndex_ShortList(i, n) == (i + 1) % (n - 1)

\* (index + 1) % paths.size(), lines 322 and 344
NextIndex(i, n) == (i + 1) % n

\* mutant of SwitchCase: clicks during the game are handled by the menu's case
SwitchCase_GameAsMenu(gs) == IF gs = "GameScreen" THEN "MainMenu" ELSE gs

\* switch (gameState), line 293: the case label the handler jumps to
SwitchCase(gs) == gs

\* SDL_MOUSEBUTTONDOWN at (mouseX, mouseY), lines 288-378
MouseButtonDown(mouseX, mouseY) ==
    /\ pc = "poll"
    /\ UNCHANGED << pc, exitCode, badAssets, isMouseOver >>
    /\ CASE SwitchCase(gameState) = "MainMenu" ->
              /\ gameState' =
                    IF containsPoint(playButton, mouseX, mouseY) THEN "GameScreen"
                    ELSE IF containsPoint(skinButton, mouseX, mouseY) THEN "SkinScreen"
                    ELSE IF containsPoint(mapButton, mouseX, mouseY) THEN "MapScreen"
                    ELSE gameState
              /\ audioPaused' =
                    IF containsPoint(playButton, mouseX, mouseY) THEN FALSE ELSE audioPaused
              /\ isRunning' =
                    IF /\ ~containsPoint(playButton, mouseX, mouseY)
                       /\ ~containsPoint(skinButton, mouseX, mouseY)
                       /\ ~containsPoint(mapButton, mouseX, mouseY)
                       /\ containsPoint(exitButton, mouseX, mouseY)
                    THEN FALSE ELSE isRunning
              /\ UNCHANGED << player, menuVars >>
         [] SwitchCase(gameState) = "SkinScreen" ->
              IF containsPoint(leftArrowButton, mouseX, mouseY) THEN
                  LET i == PreviousIndex(currentSkinIndex, size(skinImagePaths))
                  IN  /\ currentSkinIndex' = i
                      /\ skinThumbnailTexture' = loadTexture(at(skinImagePaths, i))
                      /\ UNCHANGED << gameState, isRunning, player, audioPaused, playerTexture,
                                      backgroundTextureMainMenu, backgroundTextureGameScreen,
                                      backgroundTextureMapScreen, mapThumbnailTexture,
                                      currentMapIndex >>
              ELSE IF containsPoint(rightArrowButton, mouseX, mouseY) THEN
                  LET i == NextIndex(currentSkinIndex, size(skinImagePaths))
                  IN  /\ currentSkinIndex' = i
                      /\ skinThumbnailTexture' = loadTexture(at(skinImagePaths, i))
                      /\ UNCHANGED << gameState, isRunning, player, audioPaused, playerTexture,
                                      backgroundTextureMainMenu, backgroundTextureGameScreen,
                                      backgroundTextureMapScreen, mapThumbnailTexture,
                                      currentMapIndex >>
              ELSE IF containsPoint(selectButton, mouseX, mouseY) THEN
                  /\ playerTexture' = loadTexture(at(skinImagePaths, currentSkinIndex))
                  /\ player' = [player EXCEPT !.texture = playerTexture']
                  /\ UNCHANGED << gameState, isRunning, audioPaused, skinThumbnailTexture,
                                  backgroundTextureMainMenu, backgroundTextureGameScreen,
                                  backgroundTextureMapScreen, mapThumbnailTexture,
                                  currentMapIndex, currentSkinIndex >>
              ELSE IF containsPoint(backButton, mouseX, mouseY) THEN
                  /\ gameState' = "MainMenu"
                  /\ UNCHANGED << isRunning, player, audioPaused, menuVars >>
              ELSE UNCHANGED << gameState, isRunning, player, audioPaused, menuVars >>
         [] SwitchCase(gameState) = "MapScreen" ->
              IF containsPoint(leftArrowButton, mouseX, mouseY) THEN
                  LET i == PreviousIndex(currentMapIndex, size(mapImagePaths))
                  IN  /\ currentMapIndex' = i
                      /\ mapThumbnailTexture' = loadTexture(at(mapImagePaths, i))
                      /\ UNCHANGED << gameState, isRunning, player, audioPaused, playerTexture,
                                      backgroundTextureMainMenu, backgroundTextureGameScreen,
                                      backgroundTextureMapScreen, skinThumbnailTexture,
                                      currentSkinIndex >>
              ELSE IF containsPoint(rightArrowButton, mouseX, mouseY) THEN
                  LET i == NextIndex(currentMapIndex, size(mapImagePaths))
                  IN  /\ currentMapIndex' = i
                      /\ mapThumbnailTexture' = loadTexture(at(mapImagePaths, i))
                      /\ UNCHANGED << gameState, isRunning, player, audioPaused, playerTexture,
                                      backgroundTextureMainMenu, backgroundTextureGameScreen,
                                      backgroundTextureMapScreen, skinThumbnailTexture,
                                      currentSkinIndex >>
              ELSE IF containsPoint(selectButton, mouseX, mouseY) THEN
                  LET selectedMapPath == at(mapImagePaths, currentMapIndex)
                  IN  /\ backgroundTextureMapScreen' = loadTexture(selectedMapPath)
                      /\ backgroundTextureMainMenu' = loadTexture(selectedMapPath)
                      /\ backgroundTextureGameScreen' = loadTexture(selectedMapPath)
                      /\ UNCHANGED << gameState, isRunning, player, audioPaused, playerTexture,
                                      mapThumbnailTexture, skinThumbnailTexture,
                                      currentMapIndex, currentSkinIndex >>
              ELSE IF containsPoint(backButton, mouseX, mouseY) THEN
                  /\ gameState' = "MainMenu"
                  /\ UNCHANGED << isRunning, player, audioPaused, menuVars >>
              ELSE UNCHANGED << gameState, isRunning, player, audioPaused, menuVars >>
         [] SwitchCase(gameState) = "WinScreen" ->
              IF containsPoint(winBackButton, mouseX, mouseY) THEN
                  /\ gameState' = "MainMenu"
                  /\ player' = FreshPlayer(playerTexture)
                  /\ UNCHANGED << isRunning, audioPaused, menuVars >>
              ELSE UNCHANGED << gameState, isRunning, player, audioPaused, menuVars >>
         [] SwitchCase(gameState) = "LoseScreen" ->
              IF containsPoint(loseBackButton, mouseX, mouseY) THEN
                  /\ gameState' = "GameScreen"
                  /\ player' = FreshPlayer(playerTexture)
                  /\ UNCHANGED << isRunning, audioPaused, menuVars >>
              ELSE UNCHANGED << gameState, isRunning, player, audioPaused, menuVars >>
         [] OTHER ->
              UNCHANGED << gameState, isRunning, player, audioPaused, menuVars >>

\* mutant of KeyDown: Escape returns to the menu from every screen
KeyDown_AnyScreen(sym) ==
    /\ pc = "poll"
    /\ IF sym = "SDLK_ESCAPE"
       THEN /\ gameState' = "MainMenu"
            /\ audioPaused' = TRUE
            /\ player' = FreshPlayer(playerTexture)
       ELSE UNCHANGED << gameState, audioPaused, player >>
    /\ UNCHANGED << pc, exitCode, badAssets, isRunning, menuVars, isMouseOver >>

\* mutant of KeyDown: Escape leaves the player as it is
KeyDown_NoReset(sym) ==
    /\ pc = "poll"
    /\ IF sym = "SDLK_ESCAPE" /\ gameState = "GameScreen"
       THEN /\ gameState' = "MainMenu"
            /\ audioPaused' = TRUE
            /\ UNCHANGED player
       ELSE UNCHANGED << gameState, audioPaused, player >>
    /\ UNCHANGED << pc, exitCode, badAssets, isRunning, menuVars, isMouseOver >>

\* SDL_KEYDOWN with keysym sym, lines 379-390
KeyDown(sym) ==
    /\ pc = "poll"
    /\ IF sym = "SDLK_ESCAPE" /\ gameState = "GameScreen"
       THEN /\ gameState' = "MainMenu"
            /\ audioPaused' = TRUE
            /\ player' = FreshPlayer(playerTexture)
       ELSE UNCHANGED << gameState, audioPaused, player >>
    /\ UNCHANGED << pc, exitCode, badAssets, isRunning, menuVars, isMouseOver >>

\* the buttons whose hover flag a motion event recomputes in each screen
HoverButtons(gs) ==
    CASE gs = "MainMenu" -> {"playButton", "skinButton", "mapButton", "exitButton"}
      [] gs \in {"MapScreen", "SkinScreen"} ->
             {"leftArrowButton", "rightArrowButton", "selectButton", "backButton"}
      [] gs = "WinScreen" -> {"winBackButton"}
      [] gs = "LoseScreen" -> {"loseBackButton"}
      [] OTHER -> {}

ButtonOf(name) ==
    CASE name = "playButton" -> playButton
      [] name = "skinButton" -> skinButton
      [] name = "mapButton" -> mapButton
      [] name = "exitButton" -> exitButton
      [] name = "selectButton" -> selectButton
      [] name = "backButton" -> backButton
      [] name = "winBackButton" -> winBackButton
      [] name = "loseBackButton" -> loseBackButton
      [] name = "leftArrowButton" -> leftArrowButton
      [] name = "rightArrowButton" -> rightArrowButton

\* SDL_MOUSEMOTION at (mouseX, mouseY), lines 391-425
MouseMotion(mouseX, mouseY) ==
    /\ pc = "poll"
    /\ isMouseOver' =
          [b \in ButtonNames |->
              IF b \in HoverButtons(gameState)
              THEN containsPoint(ButtonOf(b), mouseX, mouseY)
              ELSE isMouseOver[b]]
    /\ UNCHANGED << pc, exitCode, badAssets, gameState, isRunning, player, menuVars, audioPaused >>

\* ------------------------------------------------------------------ the frame
\* mutant of Frame: the update is called twice in a frame
Frame_UpdateTwice(state) ==
    /\ pc = "poll"
    /\ IF gameState = "GameScreen"
       THEN LET r1 == Update(player, state, gameState, platforms)
                r == Update(r1.player, state, r1.gameState, platforms)
            IN  /\ player' = r.player
                /\ gameState' = r.gameState
       ELSE UNCHANGED << player, gameState >>
    /\ pc' = IF isRunning THEN "poll" ELSE "exit"
    /\ exitCode' = IF isRunning THEN exitCode ELSE 0
    /\ UNCHANGED << badAssets, isRunning, menuVars, audioPaused, isMouseOver >>

\* SDL_PollEvent returns 0: lines 428-481 with keyboard state `state`, then the
\* loop test of line 280; leaving the loop, runGameLoop returns and main returns 0
Frame(state) ==
    /\ pc = "poll"
    /\ IF gameState = "GameScreen"
       THEN LET r == Update(player, state, gameState, platforms)
            IN  /\ player' = r.player
                /\ gameState' = r.gameState
       ELSE UNCHANGED << player, gameState >>
    /\ pc' = IF isRunning THEN "poll" ELSE "exit"
    /\ exitCode' = IF isRunning THEN exitCode ELSE 0
    /\ UNCHANGED << badAssets, isRunning, menuVars, audioPaused, isMouseOver >>

\* ------------------------------------------------------------ sampled inputs
\* mouse positions: inside every button, on and just off a button's corner, in the
\* overlap of SELECT with BACK TO MENU / TRY AGAIN, and on no button at all
ClickPoints ==
    { <<400, 175>>, <<500, 200>>, <<501, 200>>,      \* PLAY: centre, corner, 1px outside
      <<275, 250>>, <<525, 250>>, <<650, 525>>,      \* SKINS, MAP, EXIT
      <<175, 325>>, <<625, 325>>,                    \* < and >
      <<400, 470>>, <<400, 440>>, <<400, 410>>,      \* SELECT only, SELECT and BACK TO MENU, BACK TO MENU only
      <<400, 525>>,                                  \* BACK
      <<10, 10>> }                                   \* no button

\* the positions that lie on none of the carousel buttons (<, >, SELECT)
NonCarouselPoints ==
    {pt \in ClickPoints :
        /\ ~containsPoint(leftArrowButton, pt[1], pt[2])
        /\ ~containsPoint(rightArrowButton, pt[1], pt[2])
        /\ ~containsPoint(selectButton, pt[1], pt[2])}

\* pointer position of the motion events of a play session: on no button, so the
\* hover flags stay clear there (SpecIdle moves the pointer over every button)
PlayMotionPoints == { <<10, 10>> }

KeySyms == {"SDLK_ESCAPE", "SDLK_SPACE"}

\* ------------------------------------------------------------ specifications
\* Spec: the program with the selection left at its default (no click lands on a
\* carousel button), every keyboard state in every frame.
Startup == StartupFails \/ StartupOk

Next ==
    \/ Startup
    \/ \E pt \in NonCarouselPoints : MouseButtonDown(pt[1], pt[2])
    \/ \E state \in KeyStates : Frame(state)
    \/ \E sym \in KeySyms : KeyDown(sym)
    \/ \E pt \in PlayMotionPoints : MouseMotion(pt[1], pt[2])
    \/ Quit

Spec == Init /\ [][Next]_vars

\* SpecIdle: the program when no movement key is ever held, every click and motion
\* position.  A frame runs whenever the event queue is empty.
IdleNext ==
    \/ Startup
    \/ \E pt \in ClickPoints : MouseButtonDown(pt[1], pt[2])
    \/ Frame({})
    \/ \E sym \in KeySyms : KeyDown(sym)
    \/ \E pt \in ClickPoints : MouseMotion(pt[1], pt[2])
    \/ Quit

SpecIdle == Init /\ [][IdleNext]_vars /\ WF_vars(Frame({}))

\* SpecAssets: the program started with some of its asset files missing or corrupt,
\* no movement key held, every click position.
ImageAssets ==
    {at(mapImagePaths, i) : i \in 0..(size(mapImagePaths) - 1)}
    \cup {at(skinImagePaths, i) : i \in 0..(size(skinImagePaths) - 1)}

Assets == ImageAssets \cup {AudioAsset}

\* the sets of unreadable files tried: none, each file alone, every image, everything
BadAssetSets == {{}} \cup {{a} : a \in Assets} \cup {ImageAssets, Assets}

InitAssets == \E bad \in BadAssetSets : InitWith(bad)

AssetsNext ==
    \/ Startup
    \/ \E pt \in ClickPoints : MouseButtonDown(pt[1], pt[2])
    \/ Frame({})
    \/ \E sym \in KeySyms : KeyDown(sym)
    \/ Quit

SpecAssets == InitAssets /\ [][AssetsNext]_vars

\* SpecUpdate: Player::update as a function.  A Player is constructed anywhere in a
\* sampled set of positions, carries any velocity a run of gravity ticks produces
\* from rest or from a jump, and update is called once with the game in GameScreen.
MaxTicks == 16
MaxOffset == 4

RECURSIVE GravityRun(_, _)
\* velY after n executions of `velY += GRAVITY` starting from v
GravityRun(v, n) == IF n = 0 THEN v ELSE GravityRun(F32Add(v, GRAVITY), n - 1)

UpdateVelocities ==
    {GravityRun(0, n) : n \in 0..MaxTicks} \cup {GravityRun(JUMP_SPEED, n) : n \in 0..MaxTicks}

\* left edge, both sides of each platform's ends, and the last steps to the right edge
UpdateXs == {0, 99, 148, 150, 552, 747, 749, 750}

\* bottoms around the band of a low and of a high platform and around the ground line
UpdateYs ==
    {top - 50 + d : top \in {GROUND_LEVEL - PLATFORM_HEIGHT, GROUND_LEVEL - 160},
                    d \in (-MaxOffset)..(PLATFORM_HEIGHT + MaxOffset)}
    \cup {GROUND_LEVEL - 50 + d : d \in 1..(2 * MaxOffset)}

InitUpdate ==
    /\ pc = "call"
    /\ exitCode = -1
    /\ badAssets = {}
    /\ gameState = "GameScreen"
    /\ isRunning = TRUE
    /\ backgroundTextureMainMenu = "images/london.bmp"
    /\ backgroundTextureGameScreen = "images/london.bmp"
    /\ backgroundTextureMapScreen = "images/london.bmp"
    /\ currentMapIndex = 0
    /\ currentSkinIndex = 0
    /\ mapThumbnailTexture = at(mapImagePaths, 0)
    /\ skinThumbnailTexture = at(skinImagePaths, 0)
    /\ playerTexture = at(skinImagePaths, 0)
    /\ \E x \in UpdateXs, y \in UpdateYs, v \in UpdateVelocities, g \in BOOLEAN :
          \* below the ground line a player is only as constructed (velY 0); on the
          \* line it is as constructed or as the ground test and the jump left it
          /\ y + 50 > GROUND_LEVEL => v = 0
          /\ y + 50 = GROUND_LEVEL => v \in {0, JUMP_SPEED}
          /\ player = [Player(x, y, 50, 50, at(skinImagePaths, 0), g) EXCEPT !.velY = v]
    /\ audioPaused = FALSE
    /\ isMouseOver = [b \in ButtonNames |-> FALSE]

\* player.update(state, gameState, platforms), line 466
UpdateCall(state) ==
    /\ pc = "call"
    /\ LET r == Update(player, state, gameState, platforms)
       IN  /\ player' = r.player
           /\ gameState' = r.gameState
    /\ pc' = "return"
    /\ UNCHANGED << exitCode, badAssets, isRunning, menuVars, audioPaused, isMouseOver >>

UpdateNext == \E state \in KeyStates : UpdateCall(state)

SpecUpdate == InitUpdate /\ [][UpdateNext]_vars

\* SpecRoute: one player's way through the level.  The keys held in a frame are
\* chosen from where the player is: up the first four platforms in a zigzag, a long
\* jump from the fourth onto the last one, and along it to the right edge.
RouteKeys(p) ==
    LET bottom == p.rect.y + p.rect.h
        x == p.rect.x
    IN  IF p.onGround
        THEN CASE bottom = GROUND_LEVEL - PLATFORM_HEIGHT ->
                     IF x >= 141 THEN {"D", "W"} ELSE {"D"}
               [] bottom = GROUND_LEVEL - 100 ->
                     IF x <= 165 THEN {"A", "W"} ELSE {"A"}
               [] bottom = GROUND_LEVEL - 160 /\ x < PLATFORM_WIDTH ->
                     IF x >= 141 THEN {"D", "W"} ELSE {"D"}
               [] bottom = GROUND_LEVEL - 240 ->
                     IF x >= 341 THEN {"D", "W"} ELSE {"D"}
               [] OTHER -> {"D"}
        ELSE IF bottom <= GROUND_LEVEL - 100 /\ bottom > GROUND_LEVEL - 160 + PLATFORM_HEIGHT
                /\ x < 200
             THEN {"A"} ELSE {"D"}

\* the frame taken with the keys of the route
RouteFrame == Frame(RouteKeys(player))

RouteNext ==
    \/ Startup
    \/ MouseButtonDown(400, 175)
    \/ RouteFrame

\* a frame runs whenever no event is pending (line 282), so frames keep coming
SpecRoute == Init /\ [][RouteNext]_vars /\ WF_vars(RouteFrame)

\* ===================================================================== claims
\* bottom and right edge of a player's rectangle
Bottom(p) == p.rect.y + p.rect.h
Right(p) == p.rect.x + p.rect.w

\* a frame of the running game would call Player::update in this state
CanStep == pc = "poll" /\ gameState = "GameScreen"

\* the player runGameLoop constructs at line 258 and on every reset, written out
ResetPlayer ==
    [rect |-> [x |-> 0, y |-> GROUND_LEVEL - PLATFORM_HEIGHT - 50, w |-> 50, h |-> 50],
     texture |-> playerTexture, speed |-> 3, velY |-> 0, onGround |-> TRUE]

LegalTransitions ==
    { <<"MainMenu", "GameScreen">>, <<"MainMenu", "SkinScreen">>, <<"MainMenu", "MapScreen">>,
      <<"MapScreen", "MainMenu">>, <<"SkinScreen", "MainMenu">>,
      <<"GameScreen", "LoseScreen">>, <<"GameScreen", "WinScreen">>,
      <<"GameScreen", "MainMenu">>, <<"WinScreen", "MainMenu">>,
      <<"LoseScreen", "GameScreen">> }

\* C1: the game starts in MainMenu, and every step that changes gameState (a click,
\* a key press, a motion event or a frame) makes one of the ten listed transitions.
C1_OnlyListedTransitions ==
    /\ gameState = "MainMenu"
    /\ [][gameState' # gameState => <<gameState, gameState'>> \in LegalTransitions]_vars

\* a run was lost (GameScreen -> LoseScreen) and the loop is still polling
C1_Witness == pc = "poll" /\ gameState = "LoseScreen"

\* C2 (as stated in the spec): in an update in which the ground test and the right-edge test
\* both succeed, the game state after the step is LoseScreen.
C2_LoseBeatsWin ==
    [][\A state \in KeyStates :
          (/\ UpdateCall(state)
           /\ Bottom(AfterCollision(player, state, platforms)) >= GROUND_LEVEL
           /\ Right(AfterCollision(player, state, platforms)) >= SCREEN_WIDTH)
          => gameState' = "LoseScreen"]_vars

\* C3 (as stated in the spec, and only for steps that stay left of the right edge): a player
\* whose bottom is at or below the ground line when the step starts ends the step
\* with its bottom on the ground line and the game in LoseScreen.
C3_GroundAtStartLoses ==
    [][(/\ pc = "call"
        /\ pc' = "return"
        /\ Bottom(player) >= GROUND_LEVEL
        /\ Right(player') < SCREEN_WIDTH)
       => (Bottom(player') = GROUND_LEVEL /\ gameState' = "LoseScreen")]_vars

\* C3 (amended): for every player an update is called on and every keyboard state:
\* when the bottom is at or below the ground line once the step's move, gravity and
\* platform collision are done, the step ends with the bottom on the ground line,
\* and in LoseScreen if the right edge was not reached.
C3_GroundAtCheckLoses ==
    pc = "call" =>
        \A state \in KeyStates :
            Bottom(AfterCollision(player, state, platforms)) >= GROUND_LEVEL =>
                LET r == Update(player, state, gameState, platforms)
                IN  /\ Bottom(r.player) = GROUND_LEVEL
                    /\ (Right(r.player) < SCREEN_WIDTH => r.gameState = "LoseScreen")

\* an update has returned with the player put on the ground line and the run lost
C3_Witness ==
    /\ pc = "return"
    /\ gameState = "LoseScreen"
    /\ Bottom(player) = GROUND_LEVEL
    /\ player.velY = 0

\* C4 (as stated in the spec): a frame's update that finds the player, after the move and the
\* gravity integration, colliding with a platform P ends with bottom == P.top and
\* grounded == true, whatever keys are held.
C4_CollisionGrounds ==
    [][\A state \in KeyStates, i \in 1..Len(platforms) :
          (/\ gameState = "GameScreen"
           /\ Frame(state)
           /\ Collides(Integrate(player, state).rect, platforms[i]))
          => (Bottom(player') = platforms[i].y /\ player'.onGround)]_vars

\* C4 (amended): in every state in which a frame can update the player, for every
\* keyboard state and platform P: if the player collides with P after the move and
\* the gravity integration, the update ends with bottom == P.top, and with grounded
\* true and velocity 0 unless W is held, when grounded is false and velocity is
\* JUMP_SPEED.
C4_CollisionSnaps ==
    CanStep =>
        \A state \in KeyStates :
            LET mid == Integrate(player, state).rect
                r == Update(player, state, gameState, platforms).player
            IN  \A i \in 1..Len(platforms) :
                    Collides(mid, platforms[i]) =>
                        /\ Bottom(r) = platforms[i].y
                        /\ r.onGround = ("W" \notin state)
                        /\ r.velY = (IF "W" \in state THEN JUMP_SPEED ELSE 0)

\* the player has landed on the second platform and the game goes on
C4_Witness ==
    /\ CanStep
    /\ Bottom(player) = platforms[2].y
    /\ player.rect.x > platforms[1].x + platforms[1].w
    /\ player.onGround

\* C5: the player's x is always within 0..SCREEN_WIDTH - width, also after any
\* update a frame can make, and an update with A and D both held leaves x unchanged.
C5_XInRange ==
    /\ 0 <= player.rect.x
    /\ player.rect.x <= SCREEN_WIDTH - player.rect.w
    /\ (CanStep =>
          \A state \in KeyStates :
              LET r == Update(player, state, gameState, platforms).player
              IN  /\ 0 <= r.rect.x
                  /\ r.rect.x <= SCREEN_WIDTH - r.rect.w
                  /\ ({"A", "D"} \subseteq state => r.rect.x = player.rect.x))

\* the player has walked and jumped its way to the right limit of the range
C5_Witness == player.rect.x = SCREEN_WIDTH - player.rect.w

\* C6: the player's bottom edge is never below the ground line.
C6_NeverBelowGround == Bottom(player) <= GROUND_LEVEL

\* the player was put on the ground line by the update that lost the run, W held
C6_Witness ==
    /\ gameState = "LoseScreen"
    /\ Bottom(player) = GROUND_LEVEL
    /\ player.velY = JUMP_SPEED

\* C7: for every player an update is called on and every keyboard state: an update
\* whose ground test fails ends in WinScreen exactly when the right edge, after the
\* move and the clamp, is at or beyond SCREEN_WIDTH.
C7_WinIffRightEdge ==
    pc = "call" =>
        \A state \in KeyStates :
            Bottom(AfterCollision(player, state, platforms)) < GROUND_LEVEL =>
                LET r == Update(player, state, gameState, platforms)
                IN  r.gameState = "WinScreen" <=> Right(r.player) >= SCREEN_WIDTH

\* an update has returned in WinScreen with the player above the ground line
C7_Witness ==
    /\ pc = "return"
    /\ gameState = "WinScreen"
    /\ Bottom(player) < GROUND_LEVEL

\* the player has a platform or the ground under it once the move and the gravity
\* integration of an update with keys `state` are done
Contact(p, state) ==
    LET mid == Integrate(p, state)
    IN  \/ \E i \in 1..Len(platforms) : Collides(mid.rect, platforms[i])
        \/ Bottom(mid) >= GROUND_LEVEL

\* C8: in every update a frame can make with W held: the jump changes the outcome
\* (velocity JUMP_SPEED, grounded cleared) only if the player has contact in that
\* step, and without contact the new velocity is the old one plus gravity and the
\* whole outcome is the one of the same step without W.
C8_JumpOnlyWhenGrounded ==
    CanStep =>
        \A state \in {k \in KeyStates : "W" \in k} :
            LET r == Update(player, state, gameState, platforms)
                q == Update(player, state \ {"W"}, gameState, platforms)
                contact == Contact(player, state)
            IN  /\ (r # q => /\ contact
                             /\ r.player.velY = JUMP_SPEED
                             /\ ~r.player.onGround)
                /\ (r.player.velY = JUMP_SPEED => contact)
                /\ (~contact =>
                      /\ r.player.velY = F32Round(player.velY + GRAVITY)
                      /\ r = q)

\* the player has jumped off the third platform
C8_Witness ==
    /\ CanStep
    /\ player.velY = JUMP_SPEED
    /\ ~player.onGround
    /\ Bottom(player) = platforms[3].y

\* C9 (as stated in the spec, and letting the run also end by Escape or by quitting): with no
\* key ever held, a game in GameScreen eventually reaches LoseScreen with the
\* player's bottom on the ground line.
C9_IdleEventuallyLoses ==
    (pc = "poll" /\ gameState = "GameScreen")
        ~> \/ (gameState = "LoseScreen" /\ Bottom(player) = GROUND_LEVEL)
           \/ gameState = "MainMenu"
           \/ pc = "exit"

\* C9 (amended): with no key ever held the player stays at rest on the first
\* platform: in GameScreen it is at x = 0 with its bottom on that platform's top
\* and velocity 0, an update changes neither the player nor the game state, and
\* LoseScreen is never reached.
C9_IdleStaysOnPlatform ==
    /\ gameState # "LoseScreen"
    /\ gameState = "GameScreen" =>
          /\ player.rect.x = 0
          /\ Bottom(player) = GROUND_LEVEL - PLATFORM_HEIGHT
          /\ player.velY = 0
          /\ Update(player, {}, gameState, platforms) = [player |-> player, gameState |-> "GameScreen"]

\* the loop was left by a frame that ran in GameScreen: its update has acted
C9_Witness == pc = "exit" /\ exitCode = 0 /\ gameState = "GameScreen"

\* C10: Escape in GameScreen, Back on WinScreen and Try Again on LoseScreen leave
\* the player equal to a freshly constructed one, whatever it was before; and in any
\* screen other than GameScreen an Escape key press changes nothing.
C10_Resets ==
    /\ [][(\/ (gameState = "GameScreen" /\ gameState' = "MainMenu")
           \/ (gameState = "WinScreen" /\ gameState' = "MainMenu")
           \/ (gameState = "LoseScreen" /\ gameState' = "GameScreen"))
          => player' = ResetPlayer']_vars
    /\ [](pc = "poll" /\ gameState # "GameScreen" => ~ENABLED <<KeyDown("SDLK_ESCAPE")>>_vars)

\* a run that had moved the player was won and Back has led to the menu
C10_Witness ==
    /\ gameState = "MainMenu"
    /\ audioPaused = FALSE
    /\ player = ResetPlayer

\* C11 (as stated in the spec): a startup that does not reach the main loop, because
\* a subsystem, the window, the renderer, the audio clip or the audio device fails,
\* ends the process at once with exit code 1.
C11_StartupFailureExitsWithOne ==
    [][pc = "main" /\ pc' # "poll" => pc' = "exit" /\ exitCode' = 1]_vars

\* the texture handles the loop holds
TextureHandles ==
    { backgroundTextureMainMenu, backgroundTextureGameScreen, backgroundTextureMapScreen,
      mapThumbnailTexture, skinThumbnailTexture, playerTexture, player.texture }

ImageFailureLeavesNull ==
    /\ pc = "main" => /\ ENABLED StartupOk <=> AudioAsset \notin badAssets
                      /\ gameState = "MainMenu"
    /\ AudioAsset \in badAssets => pc \in {"main", "exit"}
    /\ TextureHandles \subseteq {NULL} \cup (ImageAssets \ badAssets)
    /\ mapThumbnailTexture = loadTexture(at(mapImagePaths, currentMapIndex))
    /\ skinThumbnailTexture = loadTexture(at(skinImagePaths, currentSkinIndex))
    /\ player.texture = playerTexture

RECURSIVE Repeat(_, _, _, _)
\* k applications of F(_, n) to i
Repeat(F(_, _), i, n, k) == IF k = 0 THEN i ELSE Repeat(F, F(i, n), n, k - 1)

\* next-then-previous, previous-then-next and a full turn either way are the identity
Cycles(i, n) ==
    /\ PreviousIndex(NextIndex(i, n), n) = i
    /\ NextIndex(PreviousIndex(i, n), n) = i
    /\ Repeat(NextIndex, i, n, n) = i
    /\ Repeat(PreviousIndex, i, n, n) = i

\* C13: after any sequence of clicks both carousel indices are inside their lists,
\* and from every index reached, next then previous, previous then next, and as
\* many next (or previous) clicks as the list is long lead back to that index.
C13_IndicesWrap ==
    /\ currentMapIndex \in 0..(size(mapImagePaths) - 1)
    /\ currentSkinIndex \in 0..(size(skinImagePaths) - 1)
    /\ Cycles(currentMapIndex, size(mapImagePaths))
    /\ Cycles(currentSkinIndex, size(skinImagePaths))

\* both carousels stand on their last entry
C13_Witness ==
    /\ pc = "poll"
    /\ currentMapIndex = size(mapImagePaths) - 1
    /\ currentSkinIndex = size(skinImagePaths) - 1

\* a click on the < button and on the > button while the map carousel is shown
ClickPreviousMap == gameState = "MapScreen" /\ MouseButtonDown(175, 325)
ClickNextMap == gameState = "MapScreen" /\ MouseButtonDown(625, 325)

\* C14 (as stated in the spec): on the map list, a previous click at index 0 yields
\* index 5; a next click there is the first of two, and the second next click,
\* made at the index the first one gave, yields index 0.
C14_PreviousThenTwoNext ==
    /\ [][currentMapIndex = 0 /\ ClickPreviousMap => currentMapIndex' = 5]_vars
    /\ [][currentMapIndex = NextIndex(5, size(mapImagePaths)) /\ ClickNextMap
            => currentMapIndex' = 0]_vars

\* C14 (amended): a previous click at index 0 yields index 5, ONE next click there
\* yields index 0, and a second next click yields index 1.
C14_PreviousThenOneNext ==
    /\ [][currentMapIndex = 0 /\ ClickPreviousMap => currentMapIndex' = 5]_vars
    /\ [][currentMapIndex = 5 /\ ClickNextMap => currentMapIndex' = 0]_vars
    /\ [][currentMapIndex = 0 /\ ClickNextMap => currentMapIndex' = 1]_vars

\* the map carousel shows entry 1, where the scenario ends
C14_Witness ==
    /\ pc = "poll"
    /\ gameState = "MapScreen"
    /\ currentMapIndex = 1
    /\ mapThumbnailTexture = at(mapImagePaths, 1)

\* the buttons a screen shows: the ones its case of the click handler tests
ScreenButtons(gs) ==
    CASE gs = "MainMenu" -> {playButton, skinButton, mapButton, exitButton}
      [] gs \in {"MapScreen", "SkinScreen"} ->
             {leftArrowButton, rightArrowButton, selectButton, backButton}
      [] gs = "WinScreen" -> {winBackButton}
      [] gs = "LoseScreen" -> {loseBackButton}
      [] OTHER -> {}

HitsNoButton(gs, x, y) == \A b \in ScreenButtons(gs) : ~containsPoint(b, x, y)

\* C15: while the loop polls, a click at a point on none of the active screen's
\* buttons (any point at all in GameScreen; in the other screens also the points
\* inside buttons of other screens) changes nothing: not the game state, the running
\* flag, the carousel indices, the applied textures or the player, nor anything else.
C15_MissedClickIsNoOp ==
    pc = "poll" =>
        \A pt \in ClickPoints :
            HitsNoButton(gameState, pt[1], pt[2])
                => ~ENABLED <<MouseButtonDown(pt[1], pt[2])>>_vars

\* the game runs and the pointer still rests where PLAY was clicked
C15_Witness ==
    /\ pc = "poll"
    /\ gameState = "GameScreen"
    /\ isMouseOver["playButton"]
    /\ HitsNoButton(gameState, 400, 175)

\* the background and skin in use, as opposed to the carousel thumbnails
AppliedTextures ==
    << backgroundTextureMainMenu, backgroundTextureGameScreen, backgroundTextureMapScreen,
       playerTexture, player.texture >>

ClickArrow == MouseButtonDown(175, 325) \/ MouseButtonDown(625, 325)
ClickSelect == MouseButtonDown(400, 470) \/ MouseButtonDown(400, 440)

\* C16: an arrow click on MapScreen (SkinScreen) changes the map (skin) index and
\* leaves the game state, the other index, the player and the applied textures alone;
\* no other step changes an index.  The applied textures change only by a Select
\* click on one of the two screens, which sets the three backgrounds to the map at
\* currentMapIndex (the player's skin to the skin at currentSkinIndex) and changes
\* neither an index nor the game state.
C16_ArrowsAndSelect ==
    /\ [][currentMapIndex' # currentMapIndex =>
            /\ gameState = "MapScreen" /\ ClickArrow
            /\ UNCHANGED << gameState, currentSkinIndex, player, AppliedTextures >>]_vars
    /\ [][currentSkinIndex' # currentSkinIndex =>
            /\ gameState = "SkinScreen" /\ ClickArrow
            /\ UNCHANGED << gameState, currentMapIndex, player, AppliedTextures >>]_vars
    /\ [][AppliedTextures' # AppliedTextures =>
            /\ ClickSelect
            /\ UNCHANGED << gameState, currentMapIndex, currentSkinIndex >>
            /\ \/ /\ gameState = "MapScreen"
                  /\ backgroundTextureMainMenu' = mapImagePaths[currentMapIndex + 1]
                  /\ backgroundTextureGameScreen' = mapImagePaths[currentMapIndex + 1]
                  /\ backgroundTextureMapScreen' = mapImagePaths[currentMapIndex + 1]
                  /\ UNCHANGED << playerTexture, player >>
               \/ /\ gameState = "SkinScreen"
                  /\ playerTexture' = skinImagePaths[currentSkinIndex + 1]
                  /\ player' = [player EXCEPT !.texture = skinImagePaths[currentSkinIndex + 1]]
                  /\ UNCHANGED << backgroundTextureMainMenu, backgroundTextureGameScreen,
                                  backgroundTextureMapScreen >>]_vars

\* the fourth map and the second skin were selected and are in use
C16_Witness ==
    /\ pc = "poll"
    /\ backgroundTextureGameScreen = "images/pisa.bmp"
    /\ backgroundTextureMainMenu = "images/pisa.bmp"
    /\ player.texture = "skins/rektor.bmp"
    /\ currentMapIndex = 3

\* position, velocity and grounded flag of a player
Kinematics(p) == << p.rect, p.velY, p.onGround >>

\* what exactly one kinematics step does to a player that it changes: one gravity
\* tick on the velocity and its whole part on y while in the air, or a landing
\* (velocity 0, grounded), or a jump; and at most `speed` pixels sideways
OneStep(p, q) ==
    LET v == F32Add(p.velY, GRAVITY)
    IN  /\ q.rect.x - p.rect.x \in (-p.speed)..p.speed
        /\ \/ q.velY = v /\ q.rect.y = p.rect.y + StaticCastInt(v) /\ ~q.onGround
           \/ q.velY = 0 /\ q.onGround
           \/ q.velY = JUMP_SPEED /\ ~q.onGround

\* C17: a frame, which is taken once no event is pending, runs the kinematics step
\* exactly once if the game state is then GameScreen and not at all otherwise: a
\* step that starts in another screen leaves position, velocity and grounded flag
\* as they are (or is the reset made by a button), and a step that starts in
\* GameScreen and changes them is one kinematics step, or the reset made by Escape.
C17_OneUpdatePerGameFrame ==
    /\ [][gameState # "GameScreen" =>
            Kinematics(player') = Kinematics(player) \/ player' = ResetPlayer']_vars
    /\ [][gameState = "GameScreen" /\ Kinematics(player') # Kinematics(player) =>
            \/ OneStep(player, player')
            \/ gameState' = "MainMenu" /\ player' = ResetPlayer']_vars

\* one frame after a jump: the velocity carries exactly one gravity tick
C17_Witness ==
    /\ pc = "poll"
    /\ gameState = "GameScreen"
    /\ player.velY = F32Add(JUMP_SPEED, GRAVITY)
    /\ Bottom(player) = GROUND_LEVEL - PLATFORM_HEIGHT + StaticCastInt(player.velY)

\* the platforms of a list that satisfy the collision test for a rectangle
Hits(rect, plats) == {i \in 1..Len(plats) : Collides(rect, plats[i])}

\* the list in the opposite order
Reversed(plats) == [i \in 1..Len(plats) |-> plats[Len(plats) + 1 - i]]

\* no 50x50 rectangle inside the window's width, with its bottom anywhere in the band
\* of a platform, satisfies the collision test of that platform and of another one
NoPositionHitsTwo ==
    \A i \in 1..Len(platforms), j \in 1..Len(platforms) :
        i < j =>
            \A x \in 0..(SCREEN_WIDTH - 50), b \in platforms[i].y..(platforms[i].y + platforms[i].h) :
                LET rect == [x |-> x, y |-> b - 50, w |-> 50, h |-> 50]
                IN  ~(Collides(rect, platforms[i]) /\ Collides(rect, platforms[j]))

\* C18: no position of the 50x50 player satisfies the collision test of two of the
\* eight platforms; and in every call of update, for every key state, at most one
\* platform is hit after the move and the gravity tick, so that resolving the
\* collision against the list in the opposite order gives the same player.
C18_AtMostOnePlatform ==
    /\ NoPositionHitsTwo
    /\ pc = "call" =>
          \A state \in KeyStates :
              LET q == Integrate(player, state)
              IN  /\ Cardinality(Hits(q.rect, platforms)) <= 1
                  /\ ResolvePlatforms(q, Reversed(platforms)) = ResolvePlatforms(q, platforms)

\* an update has landed the player on the third platform
C18_Witness ==
    /\ pc = "return"
    /\ player.onGround
    /\ player.velY = 0
    /\ Bottom(player) = GROUND_LEVEL - 160
    /\ Hits(player.rect, platforms) = {3}

\* C19: in MainMenu, MapScreen and SkinScreen the player is the freshly constructed
\* one (x = 0, y = GROUND_LEVEL - PLATFORM_HEIGHT - 50, velocity 0, grounded), and
\* every step that enters GameScreen, by Play or by Try Again, enters it with that
\* player.
C19_FreshPlayerOutsideGame ==
    /\ [](gameState \in {"MainMenu", "MapScreen", "SkinScreen"} => player = ResetPlayer)
    /\ [][gameState # "GameScreen" /\ gameState' = "GameScreen" => player' = ResetPlayer']_vars

\* the map carousel is opened after a game that was won
C19_Witness ==
    /\ pc = "poll"
    /\ gameState = "MapScreen"
    /\ audioPaused = FALSE
    /\ player.rect.x = 0
    /\ player.rect.y = GROUND_LEVEL - PLATFORM_HEIGHT - 50
    /\ player.velY = 0

\* C20: in every reachable state, WinScreen implies that the player's right edge is
\* exactly SCREEN_WIDTH, and LoseScreen implies that its bottom is exactly
\* GROUND_LEVEL and its right edge is left of SCREEN_WIDTH.
C20_EndScreensPinThePlayer ==
    /\ gameState = "WinScreen" =>
          Right(player) = SCREEN_WIDTH /\ player.rect.x = SCREEN_WIDTH - player.rect.w
    /\ gameState = "LoseScreen" =>
          Bottom(player) = GROUND_LEVEL /\ Right(player) < SCREEN_WIDTH

\* the game was won in the air, above the ground line, and the loop is polling
C20_Witness ==
    /\ pc = "poll"
    /\ gameState = "WinScreen"
    /\ Right(player) = SCREEN_WIDTH
    /\ Bottom(player) < GROUND_LEVEL

\* C21: the level can be won.  Once Play has been clicked, the frames taken with the
\* keys of the route (left, right and jump chosen frame by frame) lead to WinScreen,
\* and never to LoseScreen: "gameState is never WinScreen" is not an invariant.
C21_RouteWins ==
    /\ (pc = "poll" /\ gameState = "GameScreen") ~> (gameState = "WinScreen")
    /\ [](gameState # "LoseScreen")

\* the game is won at the end of the last platform, at its height
C21_Witness ==
    /\ pc = "poll"
    /\ gameState = "WinScreen"
    /\ audioPaused = FALSE
    /\ player.rect.x = SCREEN_WIDTH - player.rect.w
    /\ Bottom(player) = GROUND_LEVEL - 160

====
